---- MODULE Spec2Model ----
(***************************************************************************)
(* The to-do list API of FastAPI_Basic/todos/src.                          *)
(*                                                                         *)
(* Two applications live in the repository:                                *)
(*   - main.py: the first application, whose store is the in-process dict  *)
(*     todo_data (specification SpecMain);                                 *)
(*   - api/todo.py + database/repository.py + database/orm.py +            *)
(*     service/user.py: the application whose store is a relational        *)
(*     database reached through the repositories.  Spec has its handlers   *)
(*     that work on one todo by id, SpecUser has sign-up, the clock and    *)
(*     the list of a user's todos, and SpecFault has the writing handlers  *)
(*     over a store whose connection may fail.                             *)
(* A handler is one action: its request is drawn from small sets, and the  *)
(* request and the response are recorded in the variables request and      *)
(* response.  Where the order of a handler's statements or the             *)
(* interleaving of two requests matters, the handler is also given         *)
(* statement by statement, a worker keeping its place in inflight          *)
(* (SpecSignUp, SpecList, SpecRace, SpecMainRace).  SpecToken has the      *)
(* token functions of service/user.py on their own.  User, User.todos,     *)
(* get_user_by_username, get_access_token and the sign-up handler are not  *)
(* among the source files; they are modelled from the specification and    *)
(* tests/test_users_api.py.                                                *)
(***************************************************************************)
EXTENDS Integers, Sequences, FiniteSets, TLC

VARIABLES
    todo_table,     \* rows of table "todo", in primary-key order
    next_todo_id,   \* the store's next primary key of table "todo"
    user_table,     \* rows of table "user", in primary-key order
    next_user_id,   \* the store's next primary key of table "user"
    now,            \* the clock, in half days
    request,        \* the request handled last
    response,       \* the response to it
    todo_data,      \* main.py: the dict todo_data, as its values in dict order
    deleted_ids,    \* history: the ids of the todos deleted so far
    inflight        \* per worker, the request it is in the middle of: the
                    \* handler, the statement it has come to and its locals

vars == <<todo_table, next_todo_id, user_table, next_user_id, now,
          request, response, todo_data, deleted_ids, inflight>>

db_vars == <<todo_table, next_todo_id, user_table, next_user_id, now>>

(***************************************************************************)
(* Bounds of the model.                                                    *)
(***************************************************************************)
MaxTodoId == 4
MaxTime == 1
MaxMainId == 3
MaxTokenTime == 4

(***************************************************************************)
(* Values.                                                                 *)
(***************************************************************************)
\* Python's None where an integer id is expected (orm.py: id unset).
NoId == 0

\* Python's None where an object is expected.
None == [none |-> TRUE]

Contents == {"", "a"}
Usernames == {"ana", "bob"}
Passwords == {"pw", "pw2"}
Salts == {"s1", "s2"}

\* The query parameter order: not given (None), or a string.
NoOrder == [given |-> FALSE]
Order(s) == [given |-> TRUE, value |-> s]
Orders == {NoOrder, Order(""), Order("ASC"), Order("desc"), Order("DESC")}

\* if order: ... for a string or None.
StrTruthy(order) == order.given /\ order.value # ""
TodoIds == 1..MaxTodoId
MainIds == 1..MaxMainId

\* if x: ... for an object or None.
Truthy(x) == x # None

\* s[::-1]
RECURSIVE Reverse(_)
Reverse(s) == IF s = <<>> THEN <<>> ELSE Append(Reverse(Tail(s)), Head(s))

\* the elements of a list
Range(s) == {s[i] : i \in DOMAIN s}

\* the ids of the rows of a table (the keys of the dict)
Ids(tbl) == {tbl[i].id : i \in DOMAIN tbl}

\* the first element of a result set, or None (Session.scalar)
Scalar(rows) == IF rows = <<>> THEN None ELSE rows[1]

(***************************************************************************)
(* schema/response.py                                                      *)
(***************************************************************************)
ToDoSchema(todo) ==
    [id |-> todo.id, content |-> todo.content, is_done |-> todo.is_done]

\* [ToDoSchema.model_validate(todo) for todo in todos]
ToDoSchemas(todos) == [i \in 1..Len(todos) |-> ToDoSchema(todos[i])]

ToDoListSchema(todos) == [todos |-> todos]

\* A schema that keeps every column of the row.
UserSchema_every_column(user) == user

UserSchema(user) == [id |-> user.id, username |-> user.username]

(***************************************************************************)
(* schema/request.py                                                       *)
(***************************************************************************)
CreateToDoRequest == [content : Contents, is_done : BOOLEAN]

SignUpRequest == [username : Usernames, password : Passwords]

(***************************************************************************)
(* database/orm.py                                                         *)
(***************************************************************************)
\* A create that starts every todo as not done.
ToDo_create_not_done(req) ==
    [id |-> NoId, content |-> req.content, is_done |-> FALSE]

ToDo_create(req) ==
    [id |-> NoId, content |-> req.content, is_done |-> req.is_done]

\* A done() that flips is_done.
done_toggle(todo) == [todo EXCEPT !.is_done = ~todo.is_done]

done(todo) == [todo EXCEPT !.is_done = TRUE]

undone(todo) == [todo EXCEPT !.is_done = FALSE]

(***************************************************************************)
(* service/user.py                                                         *)
(***************************************************************************)
secret_key == "8248a69422b08c53133241c24ca55de7ba5b040efb1a870bcbcac4642ac398ae"

\* timedelta(days=1).  The clock counts half days.
TokenLifetime == 2

\* The zone of the server's clock, as its distance from UTC in half days.
UtcOffsets == {-1, 0, 1}

\* datetime.now(): the wall clock of the server's zone at instant t, with no
\* zone attached to it.
datetime_now(t, utcoffset) == t + utcoffset

\* A text as it is, where a hash is expected: the value a password column
\* holds when the text was stored unhashed.
PlainText(plain_password) ==
    [alg |-> "none", salt |-> "", digest_of |-> plain_password]

\* A hash_password that returns the plain text.
hash_password_plain(plain_password, salt) == PlainText(plain_password)

\* bcrypt.hashpw(plain, salt=bcrypt.gensalt()): the salt is drawn at random by
\* the caller of this operator; the digest is not the plain text.
hash_password(plain_password, salt) ==
    [alg |-> "bcrypt", salt |-> salt, digest_of |-> plain_password]

\* bcrypt.checkpw: hashes the plain text with the salt kept in the hash.
verify_password(plain_password, hashed_password) ==
    hash_password(plain_password, hashed_password.salt) = hashed_password

\* jwt.encode({"sub": username, "exp": datetime.now() + 1 day}, secret_key,
\* HS256), t being the reading of datetime.now().  PyJWT turns a datetime
\* into seconds with timegm(exp.utctimetuple()), which reads a datetime that
\* has no zone as UTC: exp is the instant at which a UTC clock shows t plus
\* one day.
create_jwt(username, t) ==
    [kind |-> "jwt", sub |-> username, exp |-> t + TokenLifetime,
     key |-> secret_key]

\* No Authorization header, and a string that is no JWT.
NoToken == [kind |-> "none"]
Garbage == [kind |-> "garbage"]

\* What a client can present at time t: nothing, a string that is no JWT, a
\* token the service issued when its clock showed some time from one lifetime
\* ago up to t, or such a token signed with another key.
Tokens(t) ==
    {NoToken, Garbage}
    \cup {create_jwt(u, t0) : u \in Usernames, t0 \in (t - TokenLifetime)..t}
    \cup {[create_jwt(u, t) EXCEPT !.key = "another key"] : u \in Usernames}

Returned(v) == [raised |-> FALSE, value |-> v]
Raised(exc) == [raised |-> TRUE, exc |-> exc]

\* jwt.decode(access_token, secret_key, algorithms=[HS256]) and payload["sub"]:
\* PyJWT raises DecodeError for a string that is no JWT, InvalidSignatureError
\* for another key and ExpiredSignatureError once exp <= now; decode_jwt
\* catches none of them.
decode_jwt(access_token, t) ==
    IF access_token.kind # "jwt" THEN Raised("DecodeError")
    ELSE IF access_token.key # secret_key THEN Raised("InvalidSignatureError")
    ELSE IF access_token.exp <= t THEN Raised("ExpiredSignatureError")
    ELSE Returned(access_token.sub)

(***************************************************************************)
(* database/repository.py.  A gateway operation maps the table (and the    *)
(* store's next primary key) to the new table, and either returns a value  *)
(* or raises.  fault says where the connection to the store fails:         *)
(* "none", "commit" (session.commit() raises and nothing is written) or    *)
(* "refresh" (the commit is done and session.refresh() raises).            *)
(***************************************************************************)
Faults == {"commit", "refresh"}

Outcome(tbl, nid, result) == [table |-> tbl, next_id |-> nid, result |-> result]

\* select(ToDo)
get_todos(tbl) == tbl

\* select(ToDo).where(todo_id == ToDo.id), scalar
get_todo_by_todo_id(tbl, todo_id) ==
    Scalar(SelectSeq(tbl, LAMBDA row : todo_id = row.id))

\* INSERT: the store assigns the primary key (orm.py: id is the Integer
\* primary key, so the store numbers the rows).
Insert(tbl, nid, row) == Append(tbl, [row EXCEPT !.id = nid])

\* An UPDATE with no WHERE: every row gets the is_done of row.
Update_every_row(tbl, row) ==
    [i \in DOMAIN tbl |-> [tbl[i] EXCEPT !.is_done = row.is_done]]

\* UPDATE ... WHERE id = row.id
Update(tbl, row) ==
    [i \in DOMAIN tbl |-> IF tbl[i].id = row.id THEN row ELSE tbl[i]]

\* session.add, session.commit, session.refresh, return todo
create_todo(tbl, nid, todo, fault) ==
    IF fault = "commit" THEN Outcome(tbl, nid, Raised("OperationalError"))
    ELSE LET written == Insert(tbl, nid, todo) IN
         IF fault = "refresh"
         THEN Outcome(written, nid + 1, Raised("OperationalError"))
         ELSE Outcome(written, nid + 1,
                      Returned(get_todo_by_todo_id(written, nid)))

\* session.add, session.commit, session.refresh, return todo
update_todo(tbl, nid, todo, fault) ==
    IF fault = "commit" THEN Outcome(tbl, nid, Raised("OperationalError"))
    ELSE LET written == Update(tbl, todo) IN
         IF fault = "refresh"
         THEN Outcome(written, nid, Raised("OperationalError"))
         ELSE Outcome(written, nid,
                      Returned(get_todo_by_todo_id(written, todo.id)))

\* A DELETE with no WHERE: every row goes.
delete_todo_every_row(tbl, nid, todo_id, fault) ==
    Outcome(<<>>, nid, Returned(None))

\* delete(ToDo).where(todo_id == ToDo.id), session.commit
delete_todo(tbl, nid, todo_id, fault) ==
    IF fault = "commit" THEN Outcome(tbl, nid, Raised("OperationalError"))
    ELSE Outcome(SelectSeq(tbl, LAMBDA row : todo_id # row.id), nid,
                 Returned(None))

\* The user table's UNIQUE username: an INSERT of a taken name is refused.
UsernameTaken(utbl, username) ==
    \E i \in DOMAIN utbl : utbl[i].username = username

\* UserRepository.save_user: session.add, session.commit, session.refresh
save_user(utbl, nid, user, fault) ==
    IF fault = "commit" THEN Outcome(utbl, nid, Raised("OperationalError"))
    ELSE IF UsernameTaken(utbl, user.username)
    THEN Outcome(utbl, nid, Raised("IntegrityError"))
    ELSE LET written == Insert(utbl, nid, user) IN
         IF fault = "refresh"
         THEN Outcome(written, nid + 1, Raised("OperationalError"))
         ELSE Outcome(written, nid + 1, Returned(written[Len(written)]))

\* UserRepository.get_user_by_username
get_user_by_username(utbl, username) ==
    Scalar(SelectSeq(utbl, LAMBDA row : row.username = username))

\* User.create(username, hashed_password): id unset, no todos
User_create(username, hashed_password) ==
    [id |-> NoId, username |-> username, password |-> hashed_password,
     todos |-> {}]

\* user.todos: the rows of table "todo" that belong to the user, in the
\* table's order.
user_todos(user, tbl) == SelectSeq(tbl, LAMBDA row : row.id \in user.todos)

(***************************************************************************)
(* Responses.                                                              *)
(***************************************************************************)
JSONResponse(status_code, body) == [status |-> status_code, body |-> body]

\* raise HTTPException(status_code, detail)
HTTPException(status_code, detail) ==
    JSONResponse(status_code, [detail |-> detail])

\* raise HTTPException(status_code=404, detail="To Do Not Found")
NotFound == HTTPException(404, "To Do Not Found")

\* An exception no handler catches: the framework answers 500.
ServerError(exc) == JSONResponse(500, [error |-> "Internal Server Error"])

\* security.get_access_token: the bearer token of the Authorization header;
\* without one the dependency raises 401 before the handler runs.
get_access_token(token) ==
    IF token = NoToken THEN Raised("HTTPException 401") ELSE Returned(token)

\* A request handled in one step: no worker is left in the middle of it.
Reply(req, resp) ==
    request' = req /\ response' = resp /\ UNCHANGED inflight

(***************************************************************************)
(* api/todo.py                                                             *)
(***************************************************************************)
\* A list of every row of the table, whoever owns it.
get_todos_handler_every_row(token, order) ==
    LET access_token == get_access_token(token)
        decoded == decode_jwt(access_token.value, now)
        user == get_user_by_username(user_table, decoded.value)
        todos == get_todos(todo_table)
        resp ==
            IF access_token.raised THEN HTTPException(401, "Not Authorized")
            ELSE IF decoded.raised THEN ServerError(decoded.exc)
            ELSE IF ~Truthy(user) THEN HTTPException(404, "User not found")
            ELSE IF StrTruthy(order) /\ order.value = "DESC"
            THEN JSONResponse(200,
                     ToDoListSchema(ToDoSchemas(Reverse(todos))))
            ELSE JSONResponse(200, ToDoListSchema(ToDoSchemas(todos)))
    IN  /\ Reply([op |-> "GET /todos", token |-> token, order |-> order], resp)
        /\ UNCHANGED <<db_vars, todo_data, deleted_ids>>

get_todos_handler(token, order) ==
    LET access_token == get_access_token(token)
        decoded == decode_jwt(access_token.value, now)
        user == get_user_by_username(user_table, decoded.value)
        todos == user_todos(user, todo_table)
        resp ==
            IF access_token.raised THEN HTTPException(401, "Not Authorized")
            ELSE IF decoded.raised THEN ServerError(decoded.exc)
            ELSE IF ~Truthy(user) THEN HTTPException(404, "User not found")
            ELSE IF StrTruthy(order) /\ order.value = "DESC"
            THEN JSONResponse(200,
                     ToDoListSchema(ToDoSchemas(Reverse(todos))))
            ELSE JSONResponse(200, ToDoListSchema(ToDoSchemas(todos)))
    IN  /\ Reply([op |-> "GET /todos", token |-> token, order |-> order], resp)
        /\ UNCHANGED <<db_vars, todo_data, deleted_ids>>

\* A get that answers 200 with no todo where the row is missing.
get_todo_handler_no_raise(todo_id) ==
    LET todo == get_todo_by_todo_id(todo_table, todo_id)
        resp == IF Truthy(todo) THEN JSONResponse(200, ToDoSchema(todo))
                ELSE JSONResponse(200, None)
    IN  /\ Reply([op |-> "GET /todos/{id}", todo_id |-> todo_id], resp)
        /\ UNCHANGED <<db_vars, todo_data, deleted_ids>>

get_todo_handler(todo_id) ==
    LET todo == get_todo_by_todo_id(todo_table, todo_id)
        resp == IF Truthy(todo) THEN JSONResponse(200, ToDoSchema(todo))
                ELSE HTTPException(404, "To Do Not Found")
    IN  /\ Reply([op |-> "GET /todos/{id}", todo_id |-> todo_id], resp)
        /\ UNCHANGED <<db_vars, todo_data, deleted_ids>>

create_todo_handler(req, fault) ==
    LET todo == ToDo_create(req)
        out == create_todo(todo_table, next_todo_id, todo, fault)
        resp == IF out.result.raised THEN ServerError(out.result.exc)
                ELSE JSONResponse(201, ToDoSchema(out.result.value))
    IN  /\ next_todo_id <= MaxTodoId
        /\ todo_table' = out.table
        /\ next_todo_id' = out.next_id
        /\ Reply([op |-> "POST /todos", body |-> req, fault |-> fault], resp)
        /\ UNCHANGED <<user_table, next_user_id, now, todo_data, deleted_ids>>

update_todo_handler(todo_id, is_done, fault) ==
    LET todo == get_todo_by_todo_id(todo_table, todo_id)
        changed == IF is_done THEN done(todo) ELSE undone(todo)
        out == IF Truthy(todo)
               THEN update_todo(todo_table, next_todo_id, changed, fault)
               ELSE Outcome(todo_table, next_todo_id, Returned(None))
        resp == IF ~Truthy(todo) THEN HTTPException(404, "To Do Not Found")
                ELSE IF out.result.raised THEN ServerError(out.result.exc)
                ELSE JSONResponse(200, ToDoSchema(out.result.value))
    IN  /\ todo_table' = out.table
        /\ Reply([op |-> "PATCH /todos/{id}", todo_id |-> todo_id,
                  is_done |-> is_done, fault |-> fault], resp)
        /\ UNCHANGED <<next_todo_id, user_table, next_user_id, now,
                       todo_data, deleted_ids>>

\* A delete without the lookup: it deletes whatever matches and answers 204.
delete_todo_handler_no_lookup(todo_id, fault) ==
    LET out == delete_todo(todo_table, next_todo_id, todo_id, fault)
        resp == IF out.result.raised THEN ServerError(out.result.exc)
                ELSE JSONResponse(204, None)
    IN  /\ todo_table' = out.table
        /\ deleted_ids' = IF todo_id \in Ids(todo_table) /\ ~out.result.raised
                          THEN deleted_ids \cup {todo_id} ELSE deleted_ids
        /\ Reply([op |-> "DELETE /todos/{id}", todo_id |-> todo_id,
                  fault |-> fault], resp)
        /\ UNCHANGED <<next_todo_id, user_table, next_user_id, now, todo_data>>

delete_todo_handler(todo_id, fault) ==
    LET todo == get_todo_by_todo_id(todo_table, todo_id)
        out == IF Truthy(todo)
               THEN delete_todo(todo_table, next_todo_id, todo_id, fault)
               ELSE Outcome(todo_table, next_todo_id, Returned(None))
        resp == IF ~Truthy(todo) THEN HTTPException(404, "To Do Not Found")
                ELSE IF out.result.raised THEN ServerError(out.result.exc)
                ELSE JSONResponse(204, None)
    IN  /\ todo_table' = out.table
        /\ deleted_ids' = IF Truthy(todo) /\ ~out.result.raised
                          THEN deleted_ids \cup {todo_id} ELSE deleted_ids
        /\ Reply([op |-> "DELETE /todos/{id}", todo_id |-> todo_id,
                  fault |-> fault], resp)
        /\ UNCHANGED <<next_todo_id, user_table, next_user_id, now, todo_data>>

(***************************************************************************)
(* POST /users/sign-up: hash the password, construct the User, persist it, *)
(* answer 201 with UserSchema (tests/test_users_api.py).                   *)
(***************************************************************************)
sign_up(utbl, nid, req, salt, fault) ==
    LET hashed_password == hash_password(req.password, salt)
        user == User_create(req.username, hashed_password)
        out == save_user(utbl, nid, user, fault)
    IN  [table |-> out.table, next_id |-> out.next_id,
         response |-> IF out.result.raised THEN ServerError(out.result.exc)
                      ELSE JSONResponse(201, UserSchema(out.result.value))]

user_sign_up_handler(req, salt, fault) ==
    LET out == sign_up(user_table, next_user_id, req, salt, fault)
    IN  /\ user_table' = out.table
        /\ next_user_id' = out.next_id
        /\ Reply([op |-> "POST /users/sign-up", body |-> req, fault |-> fault],
                 out.response)
        /\ UNCHANGED <<todo_table, next_todo_id, now, todo_data, deleted_ids>>

\* Half a day passes.
Tick ==
    /\ now < MaxTime
    /\ now' = now + 1
    /\ UNCHANGED <<todo_table, next_todo_id, user_table, next_user_id,
                   request, response, todo_data, deleted_ids, inflight>>

(***************************************************************************)
(* main.py: the store is the dict todo_data, kept here as the sequence of   *)
(* its values in dict order; the key of a value is its "id".               *)
(***************************************************************************)
\* todo_data.get(key)
dict_get(d, key) == Scalar(SelectSeq(d, LAMBDA v : v.id = key))

\* d[key] = value: a key the dict holds keeps its place, a new key goes last.
dict_set(d, key, value) ==
    IF Truthy(dict_get(d, key))
    THEN [i \in DOMAIN d |-> IF d[i].id = key THEN value ELSE d[i]]
    ELSE Append(d, value)

\* d.pop(key, None): the dict without the key
dict_pop(d, key) == SelectSeq(d, LAMBDA v : v.id # key)

\* main.py's CreateToDoRequest: the client gives the id.
MainCreateToDoRequest == [id : MainIds, content : Contents, is_done : BOOLEAN]

main_get_todos(d, order) ==
    LET ret == d
    IN  IF StrTruthy(order) /\ order.value = "DESC" THEN Reverse(ret) ELSE ret

main_get_todos_handler(order) ==
    LET resp == JSONResponse(200, main_get_todos(todo_data, order))
    IN  /\ Reply([op |-> "GET /todos", order |-> order], resp)
        /\ UNCHANGED <<db_vars, todo_data, deleted_ids>>

main_get_todo_handler(todo_id) ==
    LET todo == dict_get(todo_data, todo_id)
        resp == IF Truthy(todo) THEN JSONResponse(200, todo)
                ELSE HTTPException(404, "To Do Not Found")
    IN  /\ Reply([op |-> "GET /todos/{id}", todo_id |-> todo_id], resp)
        /\ UNCHANGED <<db_vars, todo_data, deleted_ids>>

main_create_todo_handler(req) ==
    /\ todo_data' = dict_set(todo_data, req.id, req)
    /\ Reply([op |-> "POST /todos", body |-> req],
             JSONResponse(201, dict_get(todo_data', req.id)))
    /\ UNCHANGED <<db_vars, deleted_ids>>

main_update_todo_handler(todo_id, is_done) ==
    LET todo == dict_get(todo_data, todo_id)
        changed == [todo EXCEPT !.is_done = is_done]
    IN  /\ todo_data' = IF Truthy(todo)
                        THEN dict_set(todo_data, todo_id, changed)
                        ELSE todo_data
        /\ Reply([op |-> "PATCH /todos/{id}", todo_id |-> todo_id,
                  is_done |-> is_done],
                 IF Truthy(todo) THEN JSONResponse(200, changed)
                 ELSE HTTPException(404, "To Do Not Found"))
        /\ UNCHANGED <<db_vars, deleted_ids>>

main_delete_todo_handler(todo_id) ==
    LET todo == dict_get(todo_data, todo_id)
    IN  /\ todo_data' = dict_pop(todo_data, todo_id)
        /\ deleted_ids' = IF Truthy(todo) THEN deleted_ids \cup {todo_id}
                          ELSE deleted_ids
        /\ Reply([op |-> "DELETE /todos/{id}", todo_id |-> todo_id],
                 IF Truthy(todo) THEN JSONResponse(204, None)
                 ELSE HTTPException(404, "To Do Not Found"))
        /\ UNCHANGED db_vars

(***************************************************************************)
(* The stores at start-up.  main.py starts with three todos; the database  *)
(* starts with the same three rows and the user "ana", who owns the first  *)
(* two.  No handler links a todo to a user (ToDo.create sets content and   *)
(* is_done only), so a user's todos are rows the store held at start-up.   *)
(***************************************************************************)
SeedTodos ==
    << [id |-> 1, content |-> "todo 1", is_done |-> TRUE],
       [id |-> 2, content |-> "todo 2", is_done |-> FALSE],
       [id |-> 3, content |-> "todo 3", is_done |-> FALSE] >>

SeedUsers ==
    << [id |-> 1, username |-> "ana",
        password |-> hash_password("pw", "s1"), todos |-> {1, 2}] >>

NoRequest == [op |-> "none"]

\* The workers that run requests, and a worker with no request.
Workers == {"w1", "w2"}
Idle == [op |-> "idle"]

Init ==
    /\ todo_table = SeedTodos
    /\ next_todo_id = Len(SeedTodos) + 1
    /\ user_table = SeedUsers
    /\ next_user_id = Len(SeedUsers) + 1
    /\ now = 0
    /\ request = NoRequest
    /\ response = None
    /\ todo_data = SeedTodos
    /\ deleted_ids = {}
    /\ inflight = [w \in Workers |-> Idle]

(***************************************************************************)
(* Spec: the todo handlers of api/todo.py that work by id, on a store that *)
(* does not fail.                                                          *)
(***************************************************************************)
Next ==
    \/ \E todo_id \in TodoIds : get_todo_handler(todo_id)
    \/ \E req \in CreateToDoRequest : create_todo_handler(req, "none")
    \/ \E todo_id \in TodoIds, is_done \in BOOLEAN :
           update_todo_handler(todo_id, is_done, "none")
    \/ \E todo_id \in TodoIds : delete_todo_handler(todo_id, "none")

Spec == Init /\ [][Next]_vars

(***************************************************************************)
(* SpecFault: the same handlers and sign-up, on a store whose connection   *)
(* may fail at a commit or at the refresh after it.                        *)
(***************************************************************************)
NextFault ==
    \/ Next
    \/ \E req \in CreateToDoRequest, fault \in Faults :
           create_todo_handler(req, fault)
    \/ \E todo_id \in TodoIds, is_done \in BOOLEAN, fault \in Faults :
           update_todo_handler(todo_id, is_done, fault)
    \/ \E todo_id \in TodoIds, fault \in Faults :
           delete_todo_handler(todo_id, fault)
    \/ \E req \in SignUpRequest, salt \in Salts, fault \in Faults \cup {"none"} :
           user_sign_up_handler(req, salt, fault)

SpecFault == Init /\ [][NextFault]_vars

(***************************************************************************)
(* SpecUser: sign-up and the list of a user's todos, with the clock and    *)
(* the handlers that change or remove the rows a list shows.               *)
(***************************************************************************)
NextUser ==
    \/ \E token \in Tokens(now), order \in Orders :
           get_todos_handler(token, order)
    \/ \E req \in SignUpRequest, salt \in Salts :
           user_sign_up_handler(req, salt, "none")
    \/ \E todo_id \in TodoIds, is_done \in BOOLEAN :
           update_todo_handler(todo_id, is_done, "none")
    \/ \E todo_id \in TodoIds : delete_todo_handler(todo_id, "none")
    \/ Tick

SpecUser == Init /\ [][NextUser]_vars

(***************************************************************************)
(* SpecMain: main.py.                                                      *)
(***************************************************************************)
NextMain ==
    \/ \E order \in Orders : main_get_todos_handler(order)
    \/ \E todo_id \in MainIds : main_get_todo_handler(todo_id)
    \/ \E req \in MainCreateToDoRequest : main_create_todo_handler(req)
    \/ \E todo_id \in MainIds, is_done \in BOOLEAN :
           main_update_todo_handler(todo_id, is_done)
    \/ \E todo_id \in MainIds : main_delete_todo_handler(todo_id)

SpecMain == Init /\ [][NextMain]_vars

(***************************************************************************)
(* SpecToken: service/user.py on its own.  The service issues a token for  *)
(* a username, on a server whose clock is in some zone, and later decodes  *)
(* the token it issued; request keeps the username, the zone and the       *)
(* instants of the two calls.                                              *)
(***************************************************************************)
\* UserService.create_jwt(username) on a server utcoffset away from UTC
call_create_jwt(username, utcoffset) ==
    /\ Reply([op |-> "create_jwt", username |-> username,
              utcoffset |-> utcoffset, issued |-> now],
             Returned(create_jwt(username, datetime_now(now, utcoffset))))
    /\ UNCHANGED <<db_vars, todo_data, deleted_ids>>

\* UserService.decode_jwt(access_token) of the token issued last; PyJWT
\* compares exp with datetime.now(tz=timezone.utc), the instant itself.
call_decode_jwt ==
    /\ request.op \in {"create_jwt", "decode_jwt"}
    /\ LET access_token == IF request.op = "create_jwt" THEN response.value
                            ELSE request.access_token
       IN  Reply([op |-> "decode_jwt", username |-> request.username,
                  utcoffset |-> request.utcoffset, issued |-> request.issued,
                  access_token |-> access_token, at |-> now],
                 decode_jwt(access_token, now))
    /\ UNCHANGED <<db_vars, todo_data, deleted_ids>>

\* Half a day passes.
TokenTick ==
    /\ now < MaxTokenTime
    /\ now' = now + 1
    /\ UNCHANGED <<todo_table, next_todo_id, user_table, next_user_id,
                   request, response, todo_data, deleted_ids, inflight>>

NextToken ==
    \/ \E username \in Usernames, utcoffset \in UtcOffsets :
           call_create_jwt(username, utcoffset)
    \/ call_decode_jwt
    \/ TokenTick

SpecToken == Init /\ [][NextToken]_vars

(***************************************************************************)
(* SpecSignUp: the sign-up handler statement by statement.  The frame of   *)
(* the worker keeps the body of the request, the locals hashed_password,   *)
(* user and saved as they get their values, and calls, the calls made so   *)
(* far with their arguments (what the mocks of test_user_sign_up record).  *)
(***************************************************************************)
SignUpOp == "POST /users/sign-up"

Called(frame, call) == [frame EXCEPT !.calls = Append(@, call)]

\* The request arrives at an idle worker.
sign_up_request(w, req) ==
    /\ inflight[w] = Idle
    /\ inflight' = [inflight EXCEPT ![w] =
                        [op |-> SignUpOp, pc |-> "hash_password", body |-> req,
                         hashed_password |-> None, user |-> None,
                         saved |-> None, calls |-> <<>>]]
    /\ UNCHANGED <<db_vars, request, response, todo_data, deleted_ids>>

\* hashed_password = user_service.hash_password(plain_password=...)
sign_up_hash_password(w, salt) ==
    LET frame == inflight[w] IN
    /\ frame.op = SignUpOp /\ frame.pc = "hash_password"
    /\ inflight' = [inflight EXCEPT ![w] =
           [Called(frame, [fn |-> "hash_password",
                           plain_password |-> frame.body.password])
            EXCEPT !.hashed_password = hash_password(frame.body.password, salt),
                   !.pc = "User.create"]]
    /\ UNCHANGED <<db_vars, request, response, todo_data, deleted_ids>>

\* user = User.create(username=..., hashed_password=hashed_password)
sign_up_User_create(w) ==
    LET frame == inflight[w] IN
    /\ frame.op = SignUpOp /\ frame.pc = "User.create"
    /\ inflight' = [inflight EXCEPT ![w] =
           [Called(frame, [fn |-> "User.create",
                           username |-> frame.body.username,
                           hashed_password |-> frame.hashed_password])
            EXCEPT !.user = User_create(frame.body.username,
                                        frame.hashed_password),
                   !.pc = "save_user"]]
    /\ UNCHANGED <<db_vars, request, response, todo_data, deleted_ids>>

\* user = user_repo.save_user(user=user)
sign_up_save_user(w) ==
    LET frame == inflight[w]
        out == save_user(user_table, next_user_id, frame.user, "none")
    IN  /\ frame.op = SignUpOp /\ frame.pc = "save_user"
        /\ user_table' = out.table
        /\ next_user_id' = out.next_id
        /\ inflight' = [inflight EXCEPT ![w] =
               [Called(frame, [fn |-> "save_user", user |-> frame.user])
                EXCEPT !.saved = out.result, !.pc = "return"]]
        /\ UNCHANGED <<todo_table, next_todo_id, now, request, response,
                       todo_data, deleted_ids>>

\* return UserSchema.model_validate(user), or the 500 of what save_user raised
sign_up_return(w) ==
    LET frame == inflight[w] IN
    /\ frame.op = SignUpOp /\ frame.pc = "return"
    /\ request' = [op |-> SignUpOp, body |-> frame.body, fault |-> "none"]
    /\ response' = IF frame.saved.raised THEN ServerError(frame.saved.exc)
                   ELSE JSONResponse(201, UserSchema(frame.saved.value))
    /\ inflight' = [inflight EXCEPT ![w] = Idle]
    /\ UNCHANGED <<db_vars, todo_data, deleted_ids>>

NextSignUp ==
    \/ \E req \in SignUpRequest : sign_up_request("w1", req)
    \/ \E salt \in Salts : sign_up_hash_password("w1", salt)
    \/ sign_up_User_create("w1")
    \/ sign_up_save_user("w1")
    \/ sign_up_return("w1")

SpecSignUp == Init /\ [][NextSignUp]_vars

(***************************************************************************)
(* SpecList: get_todos_handler of api/todo.py statement by statement.  The *)
(* frame of the worker keeps the locals, each from the statement that      *)
(* binds it on, and states, the states of the specification's request      *)
(* state machine the request has been in: a                                *)
(* request arrives Unauthenticated; the token dependency and decode_jwt    *)
(* take it to TokenValidated, get_user_by_username to UserResolved,        *)
(* user.todos to OperationApplied and the return to ResponseShaped.  A     *)
(* raise takes it to the state of its status code instead.  Between the    *)
(* statements the clock moves.                                             *)
(***************************************************************************)
ListOp == "GET /todos"

Last(s) == s[Len(s)]

\* The frame after a statement that bound the local name to value and took
\* the request to state st.
Moved(frame, st, name, value) ==
    [k \in DOMAIN frame \cup {name} |->
        IF k = name THEN value
        ELSE IF k = "states" THEN Append(frame.states, st)
        ELSE frame[k]]

ListTerminal == {"ResponseShaped", "Unauthorized", "NotFound", "ServerError"}

\* The request arrives at an idle worker.
list_request(w, token, order) ==
    /\ inflight[w] = Idle
    /\ inflight' = [inflight EXCEPT ![w] =
                        [op |-> ListOp, states |-> <<"Unauthenticated">>,
                         token |-> token, order |-> order]]
    /\ UNCHANGED <<db_vars, request, response, todo_data, deleted_ids>>

\* access_token = Depends(get_access_token);
\* username = user_service.decode_jwt(access_token=access_token)
list_decode_jwt(w) ==
    LET frame == inflight[w]
        access_token == get_access_token(frame.token)
        decoded == decode_jwt(access_token.value, now)
    IN  /\ frame.op = ListOp /\ Last(frame.states) = "Unauthenticated"
        /\ inflight' = [inflight EXCEPT ![w] =
               IF access_token.raised
               THEN Moved(frame, "Unauthorized", "response",
                          HTTPException(401, "Not Authorized"))
               ELSE IF decoded.raised
               THEN Moved(frame, "ServerError", "response",
                          ServerError(decoded.exc))
               ELSE Moved(frame, "TokenValidated", "username", decoded.value)]
        /\ UNCHANGED <<db_vars, request, response, todo_data, deleted_ids>>

\* user = user_repo.get_user_by_username(username=username);
\* if not user: raise HTTPException(404, "User not found")
list_get_user_by_username(w) ==
    LET frame == inflight[w]
        user == get_user_by_username(user_table, frame.username)
    IN  /\ frame.op = ListOp /\ Last(frame.states) = "TokenValidated"
        /\ inflight' = [inflight EXCEPT ![w] =
               IF ~Truthy(user)
               THEN Moved(frame, "NotFound", "response",
                          HTTPException(404, "User not found"))
               ELSE Moved(frame, "UserResolved", "user", user)]
        /\ UNCHANGED <<db_vars, request, response, todo_data, deleted_ids>>

\* todos = user.todos
list_user_todos(w) ==
    LET frame == inflight[w] IN
    /\ frame.op = ListOp /\ Last(frame.states) = "UserResolved"
    /\ inflight' = [inflight EXCEPT ![w] =
           Moved(frame, "OperationApplied", "todos",
                 user_todos(frame.user, todo_table))]
    /\ UNCHANGED <<db_vars, request, response, todo_data, deleted_ids>>

\* if order and order == "DESC": return ToDoListSchema(todos[::-1])
\* else: return ToDoListSchema(todos)
list_return(w) ==
    LET frame == inflight[w]
        todos == IF StrTruthy(frame.order) /\ frame.order.value = "DESC"
                 THEN Reverse(frame.todos) ELSE frame.todos
    IN  /\ frame.op = ListOp /\ Last(frame.states) = "OperationApplied"
        /\ inflight' = [inflight EXCEPT ![w] =
               Moved(frame, "ResponseShaped", "response",
                     JSONResponse(200, ToDoListSchema(ToDoSchemas(todos))))]
        /\ UNCHANGED <<db_vars, request, response, todo_data, deleted_ids>>

\* The response leaves and the worker is free again.
list_respond(w) ==
    LET frame == inflight[w] IN
    /\ frame.op = ListOp /\ Last(frame.states) \in ListTerminal
    /\ request' = [op |-> ListOp, token |-> frame.token,
                   order |-> frame.order, states |-> frame.states]
    /\ response' = frame.response
    /\ inflight' = [inflight EXCEPT ![w] = Idle]
    /\ UNCHANGED <<db_vars, todo_data, deleted_ids>>

\* The statements of a request that has arrived.
ListStep ==
    \/ list_decode_jwt("w1")
    \/ list_get_user_by_username("w1")
    \/ list_user_todos("w1")
    \/ list_return("w1")
    \/ list_respond("w1")

NextList ==
    \/ \E token \in Tokens(now), order \in Orders :
           list_request("w1", token, order)
    \/ ListStep
    \/ Tick

\* A worker that has a request goes on with it.
SpecList == Init /\ [][NextList]_vars /\ WF_vars(ListStep)

(***************************************************************************)
(* SpecRace: update_todo_handler and delete_todo_handler of api/todo.py    *)
(* statement by statement, one PATCH on worker w1 and one DELETE on worker *)
(* w2, each with its own session.  A statement on the store (a SELECT, the *)
(* flush and commit of an UPDATE, a DELETE and its commit) is one step:    *)
(* the store orders the writes to a row.  A worker that has answered keeps *)
(* its frame, with the response, at pc "done".                             *)
(***************************************************************************)
PatchOp == "PATCH /todos/{id}"
DeleteOp == "DELETE /todos/{id}"

\* The frame after a statement that bound the local name to value and left
\* the worker at pc.
Bound(frame, pc, name, value) ==
    [k \in DOMAIN frame \cup {name} |->
        IF k = name THEN value ELSE IF k = "pc" THEN pc ELSE frame[k]]

Run(w, frame) == inflight' = [inflight EXCEPT ![w] = frame]

At(w, op, pc) == inflight[w].op = op /\ inflight[w].pc = pc

patch_request(w, todo_id, is_done) ==
    /\ inflight[w] = Idle
    /\ Run(w, [op |-> PatchOp, pc |-> "lookup",
               todo_id |-> todo_id, is_done |-> is_done])
    /\ UNCHANGED <<db_vars, request, response, todo_data, deleted_ids>>

\* todo = todo_repo.get_todo_by_todo_id(todo_id=todo_id); if todo: ...
\* raise HTTPException(404)
patch_get_todo_by_todo_id(w) ==
    LET frame == inflight[w]
        todo == get_todo_by_todo_id(todo_table, frame.todo_id)
    IN  /\ At(w, PatchOp, "lookup")
        /\ Run(w, IF Truthy(todo) THEN Bound(frame, "commit", "todo", todo)
                  ELSE Bound(frame, "done", "response", NotFound))
        /\ UNCHANGED <<db_vars, request, response, todo_data, deleted_ids>>

\* todo.done() if is_done else todo.undone(); update_todo: session.add,
\* session.commit.  The flush writes UPDATE ... WHERE id = todo.id if is_done
\* has changed, and nothing if it has not.  When the UPDATE matches no row,
\* the ORM raises StaleDataError where the driver reports the rows matched
\* (stale = TRUE) and goes on where it does not.  in_store keeps whether the
\* row was in the table when the commit was done.
patch_update_todo_commit(w, stale) ==
    LET frame == inflight[w]
        changed == IF frame.is_done THEN done(frame.todo)
                   ELSE undone(frame.todo)
        dirty == changed # frame.todo
        in_store == frame.todo_id \in Ids(todo_table)
        after == Bound(Bound(frame, "refresh", "todo", changed),
                       "refresh", "in_store", in_store)
    IN  /\ At(w, PatchOp, "commit")
        /\ IF dirty /\ ~in_store /\ stale
           THEN /\ Run(w, Bound(after, "done", "response",
                                ServerError("StaleDataError")))
                /\ UNCHANGED todo_table
           ELSE /\ Run(w, after)
                /\ todo_table' = IF dirty THEN Update(todo_table, changed)
                                 ELSE todo_table
        /\ UNCHANGED <<next_todo_id, user_table, next_user_id, now, request,
                       response, todo_data, deleted_ids>>

\* update_todo: session.refresh(instance=todo), which raises if the row is
\* gone; return ToDoSchema.model_validate(todo)
patch_update_todo_refresh(w) ==
    LET frame == inflight[w]
        todo == get_todo_by_todo_id(todo_table, frame.todo_id)
    IN  /\ At(w, PatchOp, "refresh")
        /\ Run(w, IF Truthy(todo)
                  THEN Bound(frame, "done", "response",
                             JSONResponse(200, ToDoSchema(todo)))
                  ELSE Bound(frame, "done", "response",
                             ServerError("InvalidRequestError")))
        /\ UNCHANGED <<db_vars, request, response, todo_data, deleted_ids>>

delete_request(w, todo_id) ==
    /\ inflight[w] = Idle
    /\ Run(w, [op |-> DeleteOp, pc |-> "lookup",
               todo_id |-> todo_id])
    /\ UNCHANGED <<db_vars, request, response, todo_data, deleted_ids>>

\* todo = todo_repo.get_todo_by_todo_id(todo_id);
\* if not todo: raise HTTPException(404)
delete_get_todo_by_todo_id(w) ==
    LET frame == inflight[w]
        todo == get_todo_by_todo_id(todo_table, frame.todo_id)
    IN  /\ At(w, DeleteOp, "lookup")
        /\ Run(w, IF Truthy(todo) THEN Bound(frame, "delete_todo", "todo", todo)
                  ELSE Bound(frame, "done", "response", NotFound))
        /\ UNCHANGED <<db_vars, request, response, todo_data, deleted_ids>>

\* todo_repo.delete_todo(todo_id=todo_id): the DELETE and its commit
delete_delete_todo(w) ==
    LET frame == inflight[w]
        out == delete_todo(todo_table, next_todo_id, frame.todo_id, "none")
    IN  /\ At(w, DeleteOp, "delete_todo")
        /\ todo_table' = out.table
        /\ deleted_ids' = IF frame.todo_id \in Ids(todo_table)
                          THEN deleted_ids \cup {frame.todo_id}
                          ELSE deleted_ids
        /\ Run(w, Bound(frame, "done", "response", JSONResponse(204, None)))
        /\ UNCHANGED <<next_todo_id, user_table, next_user_id, now, request,
                       response, todo_data>>

NextRace ==
    \/ \E todo_id \in TodoIds, is_done \in BOOLEAN :
           patch_request("w1", todo_id, is_done)
    \/ patch_get_todo_by_todo_id("w1")
    \/ \E stale \in BOOLEAN : patch_update_todo_commit("w1", stale)
    \/ patch_update_todo_refresh("w1")
    \/ \E todo_id \in TodoIds : delete_request("w2", todo_id)
    \/ delete_get_todo_by_todo_id("w2")
    \/ delete_delete_todo("w2")

SpecRace == Init /\ [][NextRace]_vars

(***************************************************************************)
(* SpecMainRace: update_todo_handler and delete_todo_handler of main.py    *)
(* statement by statement, one PATCH on worker w1 and one DELETE on worker *)
(* w2 (the handlers are def functions, which the framework runs on the     *)
(* threads of a pool).  The local todo of the PATCH is the dict that was   *)
(* in todo_data under the key when it was looked up: an assignment to it   *)
(* shows in todo_data as long as that dict is still there.                 *)
(***************************************************************************)
\* todo = todo_data.get(todo_id); if (todo): ... raise HTTPException(404)
main_patch_get(w) ==
    LET frame == inflight[w]
        todo == dict_get(todo_data, frame.todo_id)
    IN  /\ At(w, PatchOp, "lookup")
        /\ Run(w, IF Truthy(todo) THEN Bound(frame, "setitem", "todo", todo)
                  ELSE Bound(frame, "done", "response", NotFound))
        /\ UNCHANGED <<db_vars, request, response, todo_data, deleted_ids>>

\* todo["is_done"] = is_done.  in_store keeps whether the dict was in
\* todo_data when it was assigned to.
main_patch_setitem(w) ==
    LET frame == inflight[w]
        changed == [frame.todo EXCEPT !.is_done = frame.is_done]
        in_store == frame.todo_id \in Ids(todo_data)
    IN  /\ At(w, PatchOp, "setitem")
        /\ todo_data' = IF in_store
                        THEN dict_set(todo_data, frame.todo_id, changed)
                        ELSE todo_data
        /\ Run(w, Bound(Bound(frame, "return", "todo", changed),
                        "return", "in_store", in_store))
        /\ UNCHANGED <<db_vars, request, response, deleted_ids>>

\* return todo
main_patch_return(w) ==
    LET frame == inflight[w] IN
    /\ At(w, PatchOp, "return")
    /\ Run(w, Bound(frame, "done", "response", JSONResponse(200, frame.todo)))
    /\ UNCHANGED <<db_vars, request, response, todo_data, deleted_ids>>

\* todo = todo_data.pop(todo_id, None)
main_delete_pop(w) ==
    LET frame == inflight[w]
        todo == dict_get(todo_data, frame.todo_id)
    IN  /\ At(w, DeleteOp, "lookup")
        /\ todo_data' = dict_pop(todo_data, frame.todo_id)
        /\ deleted_ids' = IF Truthy(todo) THEN deleted_ids \cup {frame.todo_id}
                          ELSE deleted_ids
        /\ Run(w, Bound(frame, "return", "todo", todo))
        /\ UNCHANGED <<db_vars, request, response>>

\* if todo: return; raise HTTPException(404)
main_delete_return(w) ==
    LET frame == inflight[w] IN
    /\ At(w, DeleteOp, "return")
    /\ Run(w, Bound(frame, "done", "response",
                    IF Truthy(frame.todo) THEN JSONResponse(204, None)
                    ELSE NotFound))
    /\ UNCHANGED <<db_vars, request, response, todo_data, deleted_ids>>

NextMainRace ==
    \/ \E todo_id \in MainIds, is_done \in BOOLEAN :
           patch_request("w1", todo_id, is_done)
    \/ main_patch_get("w1")
    \/ main_patch_setitem("w1")
    \/ main_patch_return("w1")
    \/ \E todo_id \in MainIds : delete_request("w2", todo_id)
    \/ main_delete_pop("w2")
    \/ main_delete_return("w2")

SpecMainRace == Init /\ [][NextMainRace]_vars

(***************************************************************************)
(* The claims.                                                             *)
(***************************************************************************)

\* C1, as the specification states it: a DELETE /todos/{id} for an id that
\* is not in the store answers 204.
C1_DeleteAbsentSucceeds ==
    [][\A todo_id \in TodoIds :
           (delete_todo_handler(todo_id, "none") /\ todo_id \notin Ids(todo_table))
           => response'.status = 204]_vars

\* C1, amended: a DELETE /todos/{id} for an id that is not in the store
\* answers 404 "To Do Not Found" and leaves the store as it is; so when the
\* same DELETE is issued twice in a row the second answers 404, and the store
\* after the second equals the store after the first.
C1_DeleteAbsentNotFound ==
    [][\A todo_id \in TodoIds :
           delete_todo_handler(todo_id, "none") =>
               /\ todo_id \notin Ids(todo_table) =>
                      response' = NotFound /\ todo_table' = todo_table
               /\ (request.op = "DELETE /todos/{id}" /\ request.todo_id = todo_id)
                      => response' = NotFound /\ todo_table' = todo_table]_vars

\* C1, witness: a DELETE of an id that an earlier DELETE removed got 404.
C1_Witness ==
    /\ request.op = "DELETE /todos/{id}"
    /\ request.todo_id \in deleted_ids
    /\ response = NotFound

\* C2: for an id that is not in the store, GET, PATCH and DELETE /todos/{id}
\* each answer 404 with the detail "To Do Not Found", and the store is left
\* unchanged.
C2_AbsentIdNotFound ==
    [][\A todo_id \in TodoIds :
           todo_id \notin Ids(todo_table) =>
               /\ get_todo_handler(todo_id) =>
                      response' = NotFound /\ UNCHANGED db_vars
               /\ \A is_done \in BOOLEAN :
                      update_todo_handler(todo_id, is_done, "none") =>
                          response' = NotFound /\ UNCHANGED db_vars
               /\ delete_todo_handler(todo_id, "none") =>
                      response' = NotFound /\ UNCHANGED db_vars]_vars

\* C2, witness: a GET of an id that is not in the store got 404.
C2_Witness ==
    /\ request.op = "GET /todos/{id}"
    /\ request.todo_id \notin Ids(todo_table)
    /\ response.status = 404
    /\ response.body.detail = "To Do Not Found"

\* C3: a GET /todos with no token, with a string that is no token, with a
\* token signed with another key or with an expired token answers 401.
C3_BadTokenUnauthorized ==
    [][(/\ request'.op = "GET /todos"
        /\ get_todos_handler(request'.token, request'.order)
        /\ \/ request'.token = NoToken
           \/ decode_jwt(request'.token, now).raised)
       => response'.status = 401]_vars

\* C4: a sign-up with a username that is not taken answers 201; a 201 carries
\* exactly the fields id and username, the id being the one the store gave
\* the new row and the username the requested one; and the response is the
\* same whatever the password (and the salt of its hash).
C4_SignUpResponse ==
    [][\A salt \in Salts :
           (/\ request'.op = "POST /users/sign-up"
            /\ user_sign_up_handler(request'.body, salt, "none"))
           => /\ ~UsernameTaken(user_table, request'.body.username)
                     => response'.status = 201
              /\ response'.status = 201 =>
                     /\ DOMAIN response'.body = {"id", "username"}
                     /\ response'.body.username = request'.body.username
                     /\ response'.body.id = next_user_id
                     /\ get_user_by_username(user_table',
                                             request'.body.username).id
                            = response'.body.id
              /\ \A password \in Passwords, other_salt \in Salts :
                     sign_up(user_table, next_user_id,
                             [request'.body EXCEPT !.password = password],
                             other_salt, "none").response = response']_vars

\* C4, witness: a sign-up was answered 201 and its user is in the store.
C4_Witness ==
    /\ request.op = "POST /users/sign-up"
    /\ response.status = 201
    /\ Truthy(get_user_by_username(user_table, request.body.username))
    /\ Len(user_table) = 2

\* The ids of a list of todos, in the order of the list.
IdsInOrder(todos) == [i \in 1..Len(todos) |-> todos[i].id]

\* C5: the list with order=DESC is the reverse of the list with no order, any
\* other order gives the list with no order, and the list with no order is
\* in the order of creation: a todo a POST has just created is the last of
\* it, and a PATCH or a DELETE leaves the other todos in their order.
C5_ListOrder ==
    [][/\ \A order \in Orders :
              main_get_todos_handler(order) =>
                  response' = JSONResponse(200,
                      IF order = Order("DESC")
                      THEN Reverse(main_get_todos(todo_data, NoOrder))
                      ELSE main_get_todos(todo_data, NoOrder))
       /\ \A req \in MainCreateToDoRequest :
              main_create_todo_handler(req) =>
                  LET todos == main_get_todos(todo_data', NoOrder)
                  IN  todos[Len(todos)].id = req.id
       /\ \A todo_id \in MainIds :
              (main_delete_todo_handler(todo_id)
               \/ \E is_done \in BOOLEAN :
                      main_update_todo_handler(todo_id, is_done))
              => IdsInOrder(SelectSeq(main_get_todos(todo_data', NoOrder),
                                      LAMBDA v : v.id # todo_id))
                 = IdsInOrder(SelectSeq(main_get_todos(todo_data, NoOrder),
                                        LAMBDA v : v.id # todo_id))]_vars

\* C6: when a POST /todos has answered 201 with the id i, the POST's answer
\* carries the content and is_done of its request, and a GET /todos/{i}
\* handled next answers 200 with the id i and that content and is_done.
C6_CreateThenGet ==
    [][/\ \A req \in CreateToDoRequest :
              (create_todo_handler(req, "none") /\ response'.status = 201)
              => /\ response'.body.content = req.content
                 /\ response'.body.is_done = req.is_done
       /\ \A todo_id \in TodoIds :
              (/\ request.op = "POST /todos"
               /\ response.status = 201
               /\ response.body.id = todo_id
               /\ get_todo_handler(todo_id))
              => /\ response'.status = 200
                 /\ response'.body.id = todo_id
                 /\ response'.body.content = request.body.content
                 /\ response'.body.is_done = request.body.is_done]_vars

\* C6, witness: a GET answered 200 with a todo that a POST created (the
\* ids of the rows the store started with are below it).
C6_Witness ==
    /\ request.op = "GET /todos/{id}"
    /\ response.status = 200
    /\ response.body.id > Len(SeedTodos)
    /\ response.body.content = ""

\* C7: a PATCH /todos/{id} with is_done = b of a todo in the store answers
\* 200 and leaves the todo with is_done = b, also when it had is_done = b
\* before; and the same PATCH handled next answers 200 again with the same
\* todo and leaves the store as the first left it.
C7_IsDoneIdempotent ==
    [][\A todo_id \in TodoIds, is_done \in BOOLEAN :
           (update_todo_handler(todo_id, is_done, "none")
            /\ todo_id \in Ids(todo_table))
           => /\ response'.status = 200
              /\ response'.body.is_done = is_done
              /\ get_todo_by_todo_id(todo_table', todo_id).is_done = is_done
              /\ get_todo_by_todo_id(todo_table, todo_id).is_done = is_done
                     => todo_table' = todo_table
              /\ (/\ request.op = "PATCH /todos/{id}"
                  /\ request.todo_id = todo_id
                  /\ request.is_done = is_done
                  /\ response.status = 200)
                 => response' = response /\ todo_table' = todo_table]_vars

\* C7, witness: a PATCH with is_done = TRUE was answered 200 and the todo is
\* done in the store.
C7_Witness ==
    /\ request.op = "PATCH /todos/{id}"
    /\ request.is_done
    /\ response.status = 200
    /\ get_todo_by_todo_id(todo_table, request.todo_id).is_done

\* C8: a POST /todos never answers with (nor stores its todo under) the id
\* of a todo that was deleted, nor the id of a todo that is in the store.
C8_IdNeverReused ==
    [][\A req \in MainCreateToDoRequest :
           main_create_todo_handler(req) =>
               /\ response'.body.id \notin deleted_ids
               /\ response'.body.id \notin Ids(todo_data)]_vars

\* C9: create_todo, update_todo and save_user either succeed in their write
\* and their read-back (the handler answers 201, 200, 201), or leave the
\* table as it was, also when the commit or the refresh fails.
C9_WriteAndReadBackAtomic ==
    [][/\ \A req \in CreateToDoRequest, fault \in Faults :
              create_todo_handler(req, fault) =>
                  response'.status = 201 \/ todo_table' = todo_table
       /\ \A todo_id \in TodoIds, is_done \in BOOLEAN, fault \in Faults :
              update_todo_handler(todo_id, is_done, fault) =>
                  response'.status = 200 \/ todo_table' = todo_table
       /\ \A req \in SignUpRequest, salt \in Salts, fault \in Faults :
              user_sign_up_handler(req, salt, fault) =>
                  response'.status = 201 \/ user_table' = user_table]_vars

\* C10: every todo of a 200 answer to GET /todos is one of the todos of the
\* user the token names, and that user gets 200 with the empty list when no
\* row of the table is theirs.
C10_ListOnlyOwnTodos ==
    [][(/\ request'.op = "GET /todos"
        /\ get_todos_handler(request'.token, request'.order)
        /\ request'.token # NoToken
        /\ ~decode_jwt(request'.token, now).raised)
       => LET user == get_user_by_username(
                          user_table, decode_jwt(request'.token, now).value)
          IN  Truthy(user) =>
                  /\ response'.status = 200
                  /\ \A i \in DOMAIN response'.body.todos :
                         response'.body.todos[i].id \in user.todos
                  /\ user.todos \cap Ids(todo_table) = {}
                         => response'.body.todos = <<>>]_vars

\* C10, witness: a user got a list of two todos while the table holds a row
\* that is not in the list.
C10_Witness ==
    /\ request.op = "GET /todos"
    /\ response.status = 200
    /\ Len(response.body.todos) = 2
    /\ \E id \in Ids(todo_table) :
           \A i \in DOMAIN response.body.todos : response.body.todos[i].id # id

(***************************************************************************)
(* main.py answers as api/todo.py does where the claims above name both.   *)
(***************************************************************************)
\* In main.py too a GET, a PATCH and a DELETE of an id that is not in the
\* dict answer 404 and leave the dict as it is.
Lemma_MainAbsentIdNotFound ==
    [][\A todo_id \in MainIds :
           (/\ todo_id \notin Ids(todo_data)
            /\ \/ main_get_todo_handler(todo_id)
               \/ main_delete_todo_handler(todo_id)
               \/ \E is_done \in BOOLEAN :
                      main_update_todo_handler(todo_id, is_done))
           => response' = NotFound /\ todo_data' = todo_data]_vars

\* In main.py the list with order=DESC is the reverse of the list with no
\* order, and every other order gives the list with no order.
Lemma_MainListReverse ==
    \A order \in Orders :
        main_get_todos(todo_data, order) =
            IF order = Order("DESC")
            THEN Reverse(main_get_todos(todo_data, NoOrder))
            ELSE main_get_todos(todo_data, NoOrder)

\* C11: for every username, decoding the token the service issued for it
\* returns the username at every instant less than a day (TokenLifetime)
\* after the issue, and raises, returning no username, at every instant from
\* then on.
C11_TokenRoundTrip ==
    request.op = "decode_jwt" =>
        IF request.at < request.issued + TokenLifetime
        THEN response = Returned(request.username)
        ELSE response.raised

\* On a server whose clock is in UTC the round trip is as C11 states it.
Lemma_TokenRoundTripUtc ==
    (request.op = "decode_jwt" /\ request.utcoffset = 0) =>
        IF request.at < request.issued + TokenLifetime
        THEN response = Returned(request.username)
        ELSE response = Raised("ExpiredSignatureError")

\* In every zone the token is good up to its exp and refused from then on.
Lemma_TokenGoodUntilExp ==
    request.op = "decode_jwt" =>
        IF request.at < request.access_token.exp
        THEN response = Returned(request.username)
        ELSE response = Raised("ExpiredSignatureError")

\* C12: every todo in the store has a content that is not empty, and a POST
\* /todos whose content is empty is answered with a 4xx and leaves the store
\* as it was.
C12_ContentNonEmpty ==
    /\ [](\A i \in DOMAIN todo_table : todo_table[i].content # "")
    /\ [][\A req \in CreateToDoRequest :
              (create_todo_handler(req, "none") /\ req.content = "")
              => /\ response'.status \in 400..499
                 /\ UNCHANGED db_vars]_vars

\* The functions called so far, in the order of the calls.
CallsInOrder(frame) == [i \in 1..Len(frame.calls) |-> frame.calls[i].fn]

\* C13: a sign-up hashes, constructs, persists and responds, in this order:
\* hash_password is called once, with the plain password of the request;
\* User.create is called next, with the username of the request and the hash
\* that hash_password returned, and gives a user whose id is unset; save_user
\* is called last, with that user, and the row it writes carries that hash;
\* and every password in the user table is a hash and no plain password.
C13_SignUpOrder ==
    /\ \A w \in Workers :
           LET frame == inflight[w] IN
           frame.op = SignUpOp =>
               /\ CallsInOrder(frame) =
                      CASE frame.pc = "hash_password" -> <<>>
                        [] frame.pc = "User.create" -> <<"hash_password">>
                        [] frame.pc = "save_user" ->
                               <<"hash_password", "User.create">>
                        [] frame.pc = "return" ->
                               <<"hash_password", "User.create", "save_user">>
               /\ frame.pc # "hash_password" =>
                      /\ frame.calls[1].plain_password = frame.body.password
                      /\ frame.hashed_password # PlainText(frame.body.password)
                      /\ \E salt \in Salts :
                             frame.hashed_password =
                                 [alg |-> "bcrypt", salt |-> salt,
                                  digest_of |-> frame.body.password]
               /\ frame.pc \in {"save_user", "return"} =>
                      /\ frame.calls[2].username = frame.body.username
                      /\ frame.calls[2].hashed_password = frame.hashed_password
                      /\ frame.user = [id |-> NoId,
                                       username |-> frame.body.username,
                                       password |-> frame.hashed_password,
                                       todos |-> {}]
               /\ frame.pc = "return" =>
                      /\ frame.calls[3].user = frame.user
                      /\ ~frame.saved.raised =>
                             /\ frame.saved.value \in Range(user_table)
                             /\ frame.saved.value =
                                    [frame.user EXCEPT !.id = next_user_id - 1]
    /\ \A i \in DOMAIN user_table :
           /\ user_table[i].password \notin {PlainText(p) : p \in Passwords}
           /\ user_table[i].password.alg = "bcrypt"

\* C13, witness: a sign-up was answered 201, and the row of its user carries
\* a hash of the request's password and not the password.
C13_Witness ==
    /\ request.op = SignUpOp
    /\ response.status = 201
    /\ inflight["w1"] = Idle
    /\ LET user == get_user_by_username(user_table, request.body.username)
       IN  /\ user.id = response.body.id
           /\ user.password # PlainText(request.body.password)
           /\ verify_password(request.body.password, user.password)

\* The states of a request of the specification's state machine, in order.
ListChain ==
    <<"Unauthenticated", "TokenValidated", "UserResolved", "OperationApplied",
      "ResponseShaped">>

IsPrefix(s, t) == Len(s) <= Len(t) /\ \A i \in 1..Len(s) : s[i] = t[i]

\* The user is looked up only once the token is decoded, and the todos are
\* read only once the user is resolved.
ListLookupsInOrder(frame) ==
    /\ "user" \in DOMAIN frame => "TokenValidated" \in Range(frame.states)
    /\ "todos" \in DOMAIN frame => "UserResolved" \in Range(frame.states)

\* C14: a GET /todos goes through Unauthenticated, TokenValidated,
\* UserResolved, OperationApplied and ResponseShaped in this order, skipping
\* none, or leaves the chain for Unauthorized (from Unauthenticated) or
\* NotFound (from TokenValidated); the user is looked up only after the token
\* was decoded and the todos are read only after the user was resolved; and
\* every request stops, in ResponseShaped, Unauthorized or NotFound.
C14_ListStates ==
    /\ [](\A w \in Workers :
             inflight[w].op = ListOp =>
                 /\ \/ IsPrefix(inflight[w].states, ListChain)
                    \/ inflight[w].states = <<"Unauthenticated", "Unauthorized">>
                    \/ inflight[w].states =
                           <<"Unauthenticated", "TokenValidated", "NotFound">>
                 /\ ListLookupsInOrder(inflight[w]))
    /\ \A w \in Workers :
           (inflight[w].op = ListOp) ~>
               /\ inflight[w] = Idle
               /\ request.op = ListOp
               /\ Last(request.states) \in
                      {"ResponseShaped", "Unauthorized", "NotFound"}

\* What holds of the code: the chain is gone through in order, and the only
\* other ways out are Unauthorized for a missing token, ServerError for a
\* token decode_jwt raises on, and NotFound for a user that is not there.
Lemma_ListStatesInOrder ==
    \A w \in Workers :
        inflight[w].op = ListOp =>
            /\ \/ IsPrefix(inflight[w].states, ListChain)
               \/ inflight[w].states = <<"Unauthenticated", "Unauthorized">>
               \/ inflight[w].states = <<"Unauthenticated", "ServerError">>
               \/ inflight[w].states =
                      <<"Unauthenticated", "TokenValidated", "NotFound">>
            /\ ListLookupsInOrder(inflight[w])

\* Every GET /todos stops and is answered.
Lemma_ListStops ==
    \A w \in Workers :
        (inflight[w].op = ListOp) ~>
            /\ inflight[w] = Idle
            /\ request.op = ListOp
            /\ Last(request.states) \in ListTerminal

\* C15: a PATCH /todos/{id} with is_done = b that answers 200 leaves the todo
\* of that id with is_done = b and the id and content it had, leaves every
\* other todo, the order of the rows and the set of ids as they were, and
\* answers with the todo as it is in the store.
C15_PatchFrame ==
    [][\A todo_id \in TodoIds, is_done \in BOOLEAN :
           (update_todo_handler(todo_id, is_done, "none")
            /\ response'.status = 200)
           => LET old == get_todo_by_todo_id(todo_table, todo_id)
                  new == get_todo_by_todo_id(todo_table', todo_id)
              IN  /\ Truthy(old)
                  /\ new = [id |-> old.id, content |-> old.content,
                            is_done |-> is_done]
                  /\ Len(todo_table') = Len(todo_table)
                  /\ \A i \in DOMAIN todo_table :
                         todo_table[i].id # todo_id
                             => todo_table'[i] = todo_table[i]
                  /\ Ids(todo_table') = Ids(todo_table)
                  /\ next_todo_id' = next_todo_id
                  /\ response'.body = ToDoSchema(new)]_vars

\* C15, witness: a PATCH with is_done = false of todo 1, which was done, was
\* answered 200; todo 1 is not done and todos 2 and 3 are as they were.
C15_Witness ==
    /\ request.op = "PATCH /todos/{id}"
    /\ request.todo_id = 1 /\ ~request.is_done
    /\ response.status = 200
    /\ response.body = [SeedTodos[1] EXCEPT !.is_done = FALSE]
    /\ todo_table = <<[SeedTodos[1] EXCEPT !.is_done = FALSE],
                      SeedTodos[2], SeedTodos[3]>>

\* main.py: a PATCH that answers 200 changes the is_done of its todo only.
Lemma_MainPatchFrame ==
    [][\A todo_id \in MainIds, is_done \in BOOLEAN :
           (main_update_todo_handler(todo_id, is_done)
            /\ response'.status = 200)
           => LET old == dict_get(todo_data, todo_id) IN
              /\ Truthy(old)
              /\ dict_get(todo_data', todo_id) = [old EXCEPT !.is_done = is_done]
              /\ Len(todo_data') = Len(todo_data)
              /\ \A i \in DOMAIN todo_data :
                     todo_data[i].id # todo_id => todo_data'[i] = todo_data[i]
              /\ response'.body = dict_get(todo_data', todo_id)]_vars

\* C16: a POST /todos that answers 201 adds one todo and touches no other:
\* the id of the returned todo was not in the store before, every todo that
\* was in the store is still there with its content and is_done, and there
\* is one todo more than before.  Stated of main.py.
C16_PostFrame ==
    [][\A req \in MainCreateToDoRequest :
           (main_create_todo_handler(req) /\ response'.status = 201)
           => /\ response'.body.id \notin Ids(todo_data)
              /\ \A i \in DOMAIN todo_data : todo_data[i] \in Range(todo_data')
              /\ Len(todo_data') = Len(todo_data) + 1]_vars

\* The same of api/todo.py, where the store gives the id: the claim holds.
Lemma_DbPostFrame ==
    [][\A req \in CreateToDoRequest :
           (create_todo_handler(req, "none") /\ response'.status = 201)
           => /\ response'.body.id \notin Ids(todo_table)
              /\ \A i \in DOMAIN todo_table : todo_table'[i] = todo_table[i]
              /\ Len(todo_table') = Len(todo_table) + 1
              /\ todo_table'[Len(todo_table')] = response'.body
              /\ response'.body = [id |-> next_todo_id,
                                   content |-> req.content,
                                   is_done |-> req.is_done]]_vars

\* C17: a DELETE /todos/{id} of a todo that is in the store answers 204 with
\* no body and removes that todo and no other: the other rows are as they
\* were, in their order; and a GET /todos/{id} of a deleted todo, the next
\* request or a later one, answers 404.
C17_DeleteFrame ==
    [][\A todo_id \in TodoIds :
           /\ (delete_todo_handler(todo_id, "none")
               /\ todo_id \in Ids(todo_table))
              => /\ response' = JSONResponse(204, None)
                 /\ todo_id \notin Ids(todo_table')
                 /\ todo_table' =
                        SelectSeq(todo_table, LAMBDA row : row.id # todo_id)
                 /\ Len(todo_table') = Len(todo_table) - 1
                 /\ next_todo_id' = next_todo_id
           /\ (get_todo_handler(todo_id) /\ todo_id \in deleted_ids)
              => response' = NotFound]_vars

\* C17, witness: todo 2 was deleted, the GET of it that followed got 404, and
\* todos 1 and 3 are as they were.
C17_Witness ==
    /\ request.op = "GET /todos/{id}"
    /\ request.todo_id = 2
    /\ deleted_ids = {2}
    /\ response = NotFound
    /\ todo_table = <<SeedTodos[1], SeedTodos[3]>>

\* main.py: a DELETE of a todo that is there answers 204 with no body and
\* pops that todo only, and a GET of it handled next answers 404.
Lemma_MainDeleteFrame ==
    [][\A todo_id \in MainIds :
           /\ (main_delete_todo_handler(todo_id)
               /\ todo_id \in Ids(todo_data))
              => /\ response' = JSONResponse(204, None)
                 /\ todo_data' =
                        SelectSeq(todo_data, LAMBDA v : v.id # todo_id)
           /\ (/\ request.op = "DELETE /todos/{id}"
               /\ request.todo_id = todo_id
               /\ response.status = 204
               /\ main_get_todo_handler(todo_id))
              => response' = NotFound]_vars

\* A PATCH and a DELETE of the same todo of the start-up store have both
\* answered.
RaceOver ==
    /\ inflight["w1"].op = PatchOp /\ inflight["w1"].pc = "done"
    /\ inflight["w2"].op = DeleteOp /\ inflight["w2"].pc = "done"
    /\ inflight["w1"].todo_id = inflight["w2"].todo_id
    /\ inflight["w1"].todo_id \in Ids(SeedTodos)

\* C18: however the statements of a PATCH and of a DELETE of the same todo
\* interleave, once both have answered the todo is not in the store, and a
\* PATCH that answered 200 wrote to a todo that was in the store at the time
\* of the write.  Stated of main.py.
C18_PatchDeleteRace ==
    RaceOver =>
        /\ inflight["w1"].todo_id \notin Ids(todo_data)
        /\ inflight["w1"].response.status = 200 => inflight["w1"].in_store

\* The same of api/todo.py: the claim holds.
Lemma_DbPatchDeleteRace ==
    RaceOver =>
        /\ inflight["w1"].todo_id \notin Ids(todo_table)
        /\ inflight["w2"].response.status = 204
        /\ inflight["w1"].response.status \in {200, 404, 500}
        /\ inflight["w1"].response.status = 200 => inflight["w1"].in_store

\* main.py: the PATCH never puts a popped todo back.
Lemma_MainRaceNeverRecreates ==
    RaceOver => inflight["w1"].todo_id \notin Ids(todo_data)
====
